---------------------------- MODULE Spec2Model ----------------------------
(***************************************************************************)
(* Model of LedgerSettlement (src/LedgerSettlementAgent.py): the ledger     *)
(* table with its Matched / Read flags, the per-account matching loop of    *)
(* settle_ledger, the candidate loop of match_credits_number and            *)
(* write_unsettled.                                                         *)
(*                                                                          *)
(* Values.  A date is a day number (the ledger's dates carry no time of     *)
(* day); an unparseable date is the sentinel NaT.  MainAccount is an        *)
(* account number; a missing one is the sentinel NaN (load_ledger does not  *)
(* fill it).  A description is a sequence of characters (a character        *)
(* outside ASCII is written by its code point), a numeric token is a        *)
(* non-empty sequence of digit characters; a numeric Description value is   *)
(* held as the text str() prints for it.  A settlement                      *)
(* number is <<n>> for the n-th uuid4 drawn in the run and <<>> for the     *)
(* empty string.  Journal number holds the number of the row in the file.   *)
(***************************************************************************)
EXTENDS Integers, Sequences, FiniteSets, TLC

\* ------------------------------------------------------------------ bounds
MaxTxns == 3
MaxDate == 1
MaxDays == 1

\* ---------------------------------------------------------------- sentinels
NaT == -1
NaN == 0
None == -1

\* ------------------------------------------------------------ input domains
\* The rows a ledger file may hold.  Each specification below draws its
\* ledgers from one of these sets: every one varies the sign of the amount
\* and one or two further groups of columns.
Amounts == {-1, 0}
Days == 0..MaxDate

\* one account, one centre; descriptions "1", "12", "2"
RawRows ==
    [MainAccount : {1}, CostCentre : {""}, ProfitCentre : {""},
     Date : Days, Amount : Amounts,
     Description : { <<"1">>, <<"1", "2">>, <<"2">> }]

\* one account, one centre, one description; dates with the unparseable date
RawRowsDates ==
    [MainAccount : {1}, CostCentre : {""}, ProfitCentre : {""},
     Date : Days \cup {NaT}, Amount : Amounts, Description : { <<"1">> }]

\* two accounts
RawRowsAccounts ==
    [MainAccount : {1, 2}, CostCentre : {""}, ProfitCentre : {""},
     Date : Days, Amount : Amounts, Description : { <<"1">> }]

\* one account and the missing account (an empty MainAccount cell)
RawRowsMissing ==
    [MainAccount : {NaN, 1}, CostCentre : {""}, ProfitCentre : {""},
     Date : Days, Amount : Amounts, Description : { <<"1">> }]

\* cost centres and profit centres, empty and filled; one date
RawRowsCentres ==
    [MainAccount : {1}, CostCentre : {"", "C1"}, ProfitCentre : {"", "P1"},
     Date : {0}, Amount : Amounts, Description : { <<"1">> }]

\* descriptions "x" (no number), "12", "1x2", "2x2" and "1e000000000000000007"
\* (an exponent longer than the float parser reads, so it stays text); one date
RawRowsTokens ==
    [MainAccount : {1}, CostCentre : {""}, ProfitCentre : {""},
     Date : {0}, Amount : Amounts,
     Description : { <<"x">>, <<"1", "2">>, <<"1", "x", "2">>, <<"2", "x", "2">>,
                     <<"1", "e", "0", "0", "0", "0", "0", "0", "0", "0", "0", "0", "0", "0", "0", "0", "0", "0", "0", "7">> }]

\* descriptions "1" and "2": two numbers, neither inside the other
RawRowsPlain ==
    [MainAccount : {1}, CostCentre : {""}, ProfitCentre : {""},
     Date : Days, Amount : Amounts,
     Description : { <<"1">>, <<"2">> }]

\* descriptions "1", "12" and "2": a number inside another; one date
RawRowsNested ==
    [MainAccount : {1}, CostCentre : {""}, ProfitCentre : {""},
     Date : {0}, Amount : Amounts,
     Description : { <<"1">>, <<"1", "2">>, <<"2">> }]

\* Ledger rows of one account with nested number sets on two dates, so that
\* a second group forms and passes may run against the order of the records
RawRowsOrder ==
    [MainAccount : {1}, CostCentre : {""}, ProfitCentre : {""},
     Date : {0, 1}, Amount : Amounts,
     Description : { <<"1">>, <<"1", "2">>, <<"2">> }]

\* Description cells as the file holds them: empty, the marker NA, the
\* integers 12 and -03, the decimal 1.50 and a digit outside ASCII; one date
RawRowsCells ==
    [MainAccount : {1}, CostCentre : {""}, ProfitCentre : {""},
     Date : {0}, Amount : Amounts,
     Description : { <<>>, <<"N", "A">>, <<"1", "2">>, <<"-", "0", "3">>,
                     <<"1", ".", "5", "0">>, <<"U+0663">> }]

VARIABLES
    transdays,       \* self.transdays
    ledger,          \* self.ledger: sequence of rows, row k has index name k-1
    results,         \* self.results
    append_debit,    \* self.append_debit
    pc,              \* position of the run
    groups,          \* the account keys groupby still has to yield
    account,         \* loop variable of the for loop
    filtered,        \* settle_ledger's filtered
    debit,           \* settle_ledger's debit (a copy of the row)
    unique_guid,     \* settle_ledger's unique_guid
    credits,         \* match_credits_number's credits (copies of the rows)
    j,               \* position of the iteration over credits
    best_credit_idx, \* match_credits_number's best_credit_idx
    overlap,         \* match_credits_number's overlap
    passes           \* history: passes[n] is the index name of the debit of the n-th pass

vars == <<transdays, ledger, results, append_debit, pc, groups, account,
          filtered, debit, unique_guid, credits, j, best_credit_idx, overlap,
          passes>>

\* ------------------------------------------------------------ load_ledger
\* A character is written as itself when it is ASCII and by its code point
\* otherwise: "U+0663" is ARABIC-INDIC DIGIT THREE, "U+FF11" is FULLWIDTH
\* DIGIT ONE.
AsciiDigits == {"0", "1", "2", "3", "4", "5", "6", "7", "8", "9"}

\* what \d matches in a str pattern: every Unicode decimal digit (of the
\* digits outside ASCII, the two named above stand for the rest)
Digits == AsciiDigits \cup {"U+0663", "U+FF11"}

\* ---- read_csv, line 31: the value of a cell of text
\* isspace of the C parser
Blanks == {" ", "\t", "\n", "U+000B", "\f", "\r"}

\* the cells read_csv takes as missing (its default na_values)
NaValues ==
    {<<>>, <<"-", "1", ".", "#", "I", "N", "D">>,
     <<"1", ".", "#", "Q", "N", "A", "N">>,
     <<"1", ".", "#", "I", "N", "D">>,
     <<"-", "1", ".", "#", "Q", "N", "A", "N">>,
     <<"#", "N", "/", "A", " ", "N", "/", "A">>, <<"#", "N", "/", "A">>,
     <<"N", "/", "A">>, <<"n", "/", "a">>, <<"N", "A">>,
     <<"<", "N", "A", ">">>, <<"#", "N", "A">>, <<"N", "U", "L", "L">>,
     <<"n", "u", "l", "l">>, <<"N", "a", "N">>, <<"-", "N", "a", "N">>,
     <<"n", "a", "n">>, <<"-", "n", "a", "n">>, <<"N", "o", "n", "e">>}

IsMissing(s) == s \in NaValues

RECURSIVE LStrip(_)
LStrip(s) == IF s # <<>> /\ s[1] \in Blanks THEN LStrip(Tail(s)) ELSE s

RECURSIVE RStrip(_)
RStrip(s) ==
    IF s # <<>> /\ s[Len(s)] \in Blanks THEN RStrip(SubSeq(s, 1, Len(s) - 1)) ELSE s

Strip(s) == RStrip(LStrip(s))

Negative(s) == s # <<>> /\ s[1] = "-"

Unsigned(s) == IF s # <<>> /\ s[1] \in {"+", "-"} THEN Tail(s) ELSE s

AllDigits(s) == \A i \in 1..Len(s) : s[i] \in AsciiDigits

\* the first position of s holding a character of cs, 0 when there is none
RECURSIVE Find(_, _, _)
Find(s, cs, i) ==
    IF i > Len(s) THEN 0 ELSE IF s[i] \in cs THEN i ELSE Find(s, cs, i + 1)

\* the text of an integer: blanks, a sign, digits, blanks
IntegerSyntax(s) ==
    LET u == Unsigned(Strip(s)) IN u # <<>> /\ AllDigits(u)

\* the parts of a decimal number: digits before and after the point, and the
\* text of the exponent
Mantissa(u) ==
    LET e == Find(u, {"e", "E"}, 1) IN IF e = 0 THEN u ELSE SubSeq(u, 1, e - 1)
Exponent(u) ==
    LET e == Find(u, {"e", "E"}, 1) IN IF e = 0 THEN <<>> ELSE SubSeq(u, e + 1, Len(u))
IntPart(u) ==
    LET m == Mantissa(u)
        d == Find(m, {"."}, 1)
    IN IF d = 0 THEN m ELSE SubSeq(m, 1, d - 1)
FracPart(u) ==
    LET m == Mantissa(u)
        d == Find(m, {"."}, 1)
    IN IF d = 0 THEN <<>> ELSE SubSeq(m, d + 1, Len(m))

\* the most digits the float parser reads in an exponent; a longer exponent
\* leaves the rest of the word unread and the word is not a number
ExponentDigits == 17

\* the text of a decimal number: blanks, a sign, digits with or without a
\* point, an exponent or none, blanks
DecimalSyntax(s) ==
    LET u == Unsigned(Strip(s))
    IN /\ AllDigits(IntPart(u))
       /\ AllDigits(FracPart(u))
       /\ Len(IntPart(u)) + Len(FracPart(u)) > 0
       /\ \/ Find(u, {"e", "E"}, 1) = 0
          \/ /\ Unsigned(Exponent(u)) # <<>>
             /\ AllDigits(Unsigned(Exponent(u)))
             /\ Len(Unsigned(Exponent(u))) <= ExponentDigits

UpperCase ==
    <<"A", "B", "C", "D", "E", "F", "G", "H", "I", "J", "K", "L", "M">> \o
    <<"N", "O", "P", "Q", "R", "S", "T", "U", "V", "W", "X", "Y", "Z">>
LowerCase ==
    <<"a", "b", "c", "d", "e", "f", "g", "h", "i", "j", "k", "l", "m">> \o
    <<"n", "o", "p", "q", "r", "s", "t", "u", "v", "w", "x", "y", "z">>
Lower(c) ==
    IF \E i \in 1..Len(UpperCase) : UpperCase[i] = c
    THEN LowerCase[CHOOSE i \in 1..Len(UpperCase) : UpperCase[i] = c]
    ELSE c
LowerText(s) == [i \in 1..Len(s) |-> Lower(s[i])]

\* the numbers whose conversion is followed here: at most MaxDigits digits
\* (below 2^53, so every integer is an int64 and a double holds it exactly)
\* and an exponent of at most MaxExponent either way (the parser scales by
\* one exact power of ten, and repr gives back the digits of the cell)
MaxDigits == 15
MaxExponent == 7

RECURSIVE ToNat(_)
ToNat(s) ==
    IF s = <<>> THEN 0
    ELSE 10 * ToNat(SubSeq(s, 1, Len(s) - 1))
         + (CHOOSE n \in 0..9 :
               <<"0", "1", "2", "3", "4", "5", "6", "7", "8", "9">>[n + 1] = s[Len(s)])

\* a cell outside these numbers is not followed: load_ledger is modelled on
\* files whose Description cells are all Supported
Supported(s) ==
    /\ IntegerSyntax(s) => Len(Unsigned(Strip(s))) <= MaxDigits
    /\ DecimalSyntax(s) =>
          LET u == Unsigned(Strip(s))
              x == Unsigned(Exponent(u))
          IN /\ Len(IntPart(u)) + Len(FracPart(u)) <= MaxDigits
             /\ \A i \in 1..(Len(x) - 1) : x[i] = "0"
             /\ x # <<>> => ToNat(<<x[Len(x)]>>) <= MaxExponent

\* a cell read_csv parses as an integer
IsInteger(s) == IntegerSyntax(s) /\ Supported(s)

IsDecimal(s) == DecimalSyntax(s) /\ Supported(s)

\* inf and infinity, signed or not, in any case
IsInf(s) ==
    LowerText(Unsigned(s))
        \in {<<"i", "n", "f">>, <<"i", "n", "f", "i", "n", "i", "t", "y">>}

\* a cell read_csv parses as a float
IsFloat(s) == IsDecimal(s) \/ IsInf(s)

\* a cell read_csv parses as a boolean: true or false in any case
IsBool(s) == LowerText(s) \in {<<"t", "r", "u", "e">>, <<"f", "a", "l", "s", "e">>}

\* ---- str() of the values
DigitChar(n) == <<"0", "1", "2", "3", "4", "5", "6", "7", "8", "9">>[n + 1]

RECURSIVE FromNat(_)
FromNat(n) ==
    IF n < 10 THEN <<DigitChar(n)>>
    ELSE Append(FromNat(n \div 10), DigitChar(n % 10))

Zeros(n) == [i \in 1..n |-> "0"]

\* the digits without leading zeros (one zero is kept)
RECURSIVE StripZeros(_)
StripZeros(s) == IF Len(s) > 1 /\ s[1] = "0" THEN StripZeros(Tail(s)) ELSE s

RECURSIVE StripTrailingZeros(_)
StripTrailingZeros(s) ==
    IF s # <<>> /\ s[Len(s)] = "0"
    THEN StripTrailingZeros(SubSeq(s, 1, Len(s) - 1))
    ELSE s

\* str() of the integer parsed from the cell
IntText(s) ==
    LET t == Strip(s)
        d == StripZeros(Unsigned(t))
    IN IF Negative(t) /\ d # <<"0">> THEN <<"-">> \o d ELSE d

\* repr of the float parsed from a Supported decimal cell: the digits of
\* the cell, positional for exponents -4 .. 15, else scientific
DecimalText(s) ==
    LET t == Strip(s)
        u == Unsigned(t)
        sign == IF Negative(t) THEN <<"-">> ELSE <<>>
        x == Exponent(u)
        e == IF Negative(x) THEN 0 - ToNat(Unsigned(x)) ELSE ToNat(Unsigned(x))
        all == IntPart(u) \o FracPart(u)
        lead == IF AllDigits(all) /\ \A i \in 1..Len(all) : all[i] = "0"
                THEN Len(all)
                ELSE Find(all, AsciiDigits \ {"0"}, 1) - 1
        D == StripTrailingZeros(SubSeq(all, lead + 1, Len(all)))
        p == Len(IntPart(u)) + e - lead
        abs == IF p - 1 < 0 THEN 1 - p ELSE p - 1
    IN IF D = <<>> THEN sign \o <<"0", ".", "0">>
       ELSE IF p - 1 < -4 \/ p - 1 >= 16
            THEN sign \o <<D[1]>>
                 \o (IF Len(D) > 1 THEN <<".">> \o Tail(D) ELSE <<>>)
                 \o <<"e", IF p - 1 < 0 THEN "-" ELSE "+">>
                 \o (IF abs < 10 THEN <<"0">> ELSE <<>>) \o FromNat(abs)
       ELSE IF p <= 0 THEN sign \o <<"0", ".">> \o Zeros(0 - p) \o D
       ELSE IF p >= Len(D) THEN sign \o D \o Zeros(p - Len(D)) \o <<".", "0">>
       ELSE sign \o SubSeq(D, 1, p) \o <<".">> \o SubSeq(D, p + 1, Len(D))

FloatText(s) ==
    IF IsDecimal(s) THEN DecimalText(s)
    ELSE IF Negative(s) THEN <<"-", "i", "n", "f">> ELSE <<"i", "n", "f">>

BoolText(s) ==
    IF LowerText(s) = <<"t", "r", "u", "e">>
    THEN <<"T", "r", "u", "e">>
    ELSE <<"F", "a", "l", "s", "e">>

\* ---- the column
\* how read_csv converts a column of cells: it tries integers, then floats,
\* then booleans, missing cells aside, and keeps the text otherwise
Conversion(col) ==
    LET present == {k \in 1..Len(col) : ~IsMissing(col[k])}
    IN IF \E k \in present : ~Supported(col[k]) THEN "unsupported"
       ELSE IF \A k \in present : IsInteger(col[k]) THEN "integer"
       ELSE IF \A k \in present : IsFloat(col[k]) THEN "float"
       ELSE IF \A k \in present : IsBool(col[k]) THEN "boolean"
       ELSE "text"

\* the dtype of the column: a numeric column with a missing cell is float64
\* and a boolean one is object
ColumnType(col) ==
    LET missing == \E k \in 1..Len(col) : IsMissing(col[k])
    IN CASE Conversion(col) = "unsupported" -> "unsupported"
         [] col = <<>> -> "object"
         [] col # <<>> /\ Conversion(col) = "integer" ->
               IF missing THEN "float64" ELSE "int64"
         [] col # <<>> /\ Conversion(col) = "float" -> "float64"
         [] col # <<>> /\ Conversion(col) = "boolean" ->
               IF missing THEN "object" ELSE "bool"
         [] OTHER -> "object"

\* lines 31, 38 and 46: the Description column after read_csv and fillna(""),
\* each value written as str() prints it, for a column of Supported cells.
\* An integer column with a missing cell is cast to float from the integers.
ReadDescription(col) ==
    [k \in 1..Len(col) |->
        IF IsMissing(col[k]) THEN <<>>
        ELSE CASE Conversion(col) = "integer" ->
                    IF ColumnType(col) = "int64"
                    THEN IntText(col[k])
                    ELSE IntText(col[k]) \o <<".", "0">>
               [] Conversion(col) = "float" -> FloatText(col[k])
               [] Conversion(col) = "boolean" -> BoolText(col[k])
               [] OTHER -> col[k]]

RECURSIVE Scan(_, _, _, _)
Scan(s, i, cur, acc) ==
    IF i > Len(s)
    THEN IF cur = <<>> THEN acc ELSE Append(acc, cur)
    ELSE IF s[i] \in Digits
         THEN Scan(s, i + 1, Append(cur, s[i]), acc)
         ELSE Scan(s, i + 1, <<>>, IF cur = <<>> THEN acc ELSE Append(acc, cur))

\* findall with the pattern \d*: the empty string is a token too
FindAllStar(s) == Append(Scan(s, 1, <<>>, <<>>), <<>>)

\* re.findall(r'\d+', s): the maximal digit runs of s, left to right
FindAll(s) == Scan(s, 1, <<>>, <<>>)

TypeOf(amount) == IF amount < 0 THEN "debit" ELSE "credit"

\* lines 31-48 for one row; raw.Description is the value of ReadDescription
LoadRow(raw, k) ==
    [name |-> k - 1,
     Journal |-> k,
     MainAccount |-> raw.MainAccount,
     CostCentre |-> raw.CostCentre,
     ProfitCentre |-> raw.ProfitCentre,
     Date |-> raw.Date,
     Amount |-> raw.Amount,
     Description |-> raw.Description,
     Type |-> TypeOf(raw.Amount),
     ExtractedNumbers |-> FindAll(raw.Description),
     Matched |-> FALSE,
     Read |-> FALSE]

\* ------------------------------------------------------------- pandas helpers
Row(L, name) == L[name + 1]

SetFlag(L, name, flag) ==
    IF flag = "Read"
    THEN [L EXCEPT ![name + 1].Read = TRUE]
    ELSE [L EXCEPT ![name + 1].Matched = TRUE]

\* SortValues losing the rows without a date
SortValuesDropNaT(rows) ==
    LET valid == SelectSeq(rows, LAMBDA r : r.Date # NaT)
        n == Len(valid)
        orders == {f \in [1..n -> 1..n] :
                      \A p, q \in 1..n :
                          p < q => /\ f[p] # f[q]
                                   /\ valid[f[p]].Date <= valid[f[q]].Date}
    IN {[p \in 1..n |-> valid[f[p]]] : f \in orders}

\* the longest array numpy's quicksort sorts by insertion alone
SmallSort == 16

\* SortValues with rows of equal date in any order
SortValuesAnyTies(rows) ==
    LET valid == SelectSeq(rows, LAMBDA r : r.Date # NaT)
        nat == SelectSeq(rows, LAMBDA r : r.Date = NaT)
        n == Len(valid)
        orders == {f \in [1..n -> 1..n] :
                      \A p, q \in 1..n :
                          p < q => /\ f[p] # f[q]
                                   /\ valid[f[p]].Date <= valid[f[q]].Date}
    IN {[p \in 1..n |-> valid[f[p]]] \o nat : f \in orders}

\* DataFrame.sort_values(by='Date'), kind left at its default 'quicksort':
\* ascending, the NaT rows last in the order of the frame.  Up to SmallSort
\* rows the sort is an insertion sort, which keeps rows of equal date in
\* the order of the frame; on longer frames the order of equal dates is not
\* fixed.  The operator is the set of the frames sort_values may return.
SortValues(rows) ==
    LET valid == SelectSeq(rows, LAMBDA r : r.Date # NaT)
        nat == SelectSeq(rows, LAMBDA r : r.Date = NaT)
        n == Len(valid)
        orders == {f \in [1..n -> 1..n] :
                      \A p, q \in 1..n :
                          p < q => /\ f[p] # f[q]
                                   /\ valid[f[p]].Date <= valid[f[q]].Date
                                   /\ (n <= SmallSort
                                       /\ valid[f[p]].Date = valid[f[q]].Date)
                                      => f[p] < f[q]}
    IN {[p \in 1..n |-> valid[f[p]]] \o nat : f \in orders}

\* groupby('MainAccount'): the distinct keys in ascending order, NaN dropped
RECURSIVE SortedKeys(_)
SortedKeys(S) ==
    IF S = {} THEN <<>>
    ELSE LET m == CHOOSE x \in S : \A y \in S : x <= y
         IN <<m>> \o SortedKeys(S \ {m})

GroupKeys(L) ==
    SortedKeys({L[k].MainAccount : k \in 1..Len(L)} \ {NaN})

\* ----------------------------------------------------------- settle_ledger
\* lines 58-62 and 85-89
Filtered(L, acct) ==
    SortValues(SelectSeq(L, LAMBDA r :
        r.Type = "debit" /\ r.MainAccount = acct /\ r.Read = FALSE))

\* InWindow with an unparseable date passing both comparisons
InWindowNaT(date, d, days) ==
    \/ date = NaT
    \/ d = NaT
    \/ date >= d - days /\ date <= d + days

\* lines 80-81: date >= d - Timedelta(days) and date <= d + Timedelta(days);
\* a comparison with NaT, and with NaT - Timedelta, is False
InWindow(date, d, days) ==
    /\ date # NaT
    /\ d # NaT
    /\ date >= d - days
    /\ date <= d + days

\* Unsettletrans without the test of Matched
UnsettletransAnyMatched(L, d, days) ==
    SortValues(SelectSeq(L, LAMBDA r :
        /\ r.Read = FALSE
        /\ r.CostCentre = d.CostCentre
        /\ r.ProfitCentre = d.ProfitCentre
        /\ InWindow(r.Date, d.Date, days)))

\* Unsettletrans without the test of ProfitCentre
UnsettletransAnyProfit(L, d, days) ==
    SortValues(SelectSeq(L, LAMBDA r :
        /\ r.Read = FALSE
        /\ r.Matched = FALSE
        /\ r.CostCentre = d.CostCentre
        /\ InWindow(r.Date, d.Date, days)))

\* lines 76-81
Unsettletrans(L, d, days) ==
    SortValues(SelectSeq(L, LAMBDA r :
        /\ r.Read = FALSE
        /\ r.Matched = FALSE
        /\ r.CostCentre = d.CostCentre
        /\ r.ProfitCentre = d.ProfitCentre
        /\ InWindow(r.Date, d.Date, days)))

\* ---------------------------------------------------- match_credits_number
ToSet(s) == {s[k] : k \in 1..Len(s)}

\* In as equality
InEqual(a, b) == a = b

\* Python's  a in b  on strings
In(a, b) ==
    \E k \in 0..(Len(b) - Len(a)) : SubSeq(b, k + 1, k + Len(a)) = a

\* Overlap counting every pair, related or not
OverlapAllPairs(debit_numbers, credit_numbers) ==
    Cardinality(debit_numbers \X credit_numbers)

\* lines 119-120
Overlap(debit_numbers, credit_numbers) ==
    Cardinality({p \in debit_numbers \X credit_numbers :
                    In(p[1], p[2]) \/ In(p[2], p[1])})

\* lines 112-114: the row is skipped; with a NaT the comparisons are False
OutOfWindow(credit_row, debit_row, days) ==
    /\ credit_row.Date # NaT
    /\ debit_row.Date # NaT
    /\ LET date_diff == credit_row.Date - debit_row.Date
       IN date_diff < -days \/ date_diff > days

Record(row, acct, costcentre, profitcentre, guid) ==
    [Journal |-> row.Journal,
     Date |-> row.Date,
     Account |-> acct,
     CostCentre |-> costcentre,
     ProfitCentre |-> profitcentre,
     Description |-> row.Description,
     Amount |-> row.Amount,
     Settlement_Number |-> guid]

\* ------------------------------------------------------------------- Init
Init ==
    /\ transdays \in 0..MaxDays
    /\ ledger = <<>>
    /\ results = <<>>
    /\ append_debit = FALSE
    /\ pc = "new"
    /\ groups = <<>>
    /\ account = NaN
    /\ filtered = <<>>
    /\ debit = <<>>
    /\ unique_guid = <<>>
    /\ credits = <<>>
    /\ j = 0
    /\ best_credit_idx = None
    /\ overlap = 0
    /\ passes = <<>>

\* ---------------------------------------------------------------- actions
\* load_ledger, lines 23-50, on a file of at most MaxTxns rows of Rows
LoadFrom(Rows) ==
    /\ pc = "new"
    /\ \E n \in 0..MaxTxns : \E raw \in [1..n -> Rows] :
          LET cells == [k \in 1..n |-> raw[k].Description]
              read == ReadDescription(cells)
          IN /\ Conversion(cells) # "unsupported"
             /\ ledger' = [k \in 1..n |->
                              LoadRow([raw[k] EXCEPT !.Description = read[k]], k)]
    /\ pc' = "loaded"
    /\ UNCHANGED <<transdays, results, append_debit, groups, account, filtered,
                   debit, unique_guid, credits, j, best_credit_idx, passes,
                   overlap>>

LoadLedger == LoadFrom(RawRows)

LoadLedgerAccounts == LoadFrom(RawRowsAccounts)

LoadLedgerDates == LoadFrom(RawRowsDates)

LoadLedgerMissing == LoadFrom(RawRowsMissing)

LoadLedgerCentres == LoadFrom(RawRowsCentres)

LoadLedgerTokens == LoadFrom(RawRowsTokens)
LoadLedgerPlain == LoadFrom(RawRowsPlain)
LoadLedgerNested == LoadFrom(RawRowsNested)
LoadLedgerOrder == LoadFrom(RawRowsOrder)
LoadLedgerCells == LoadFrom(RawRowsCells)

\* settle_ledger, line 57: groupby
GroupBy ==
    /\ pc = "loaded"
    /\ groups' = GroupKeys(ledger)
    /\ pc' = "for"
    /\ UNCHANGED <<transdays, ledger, results, append_debit, account, filtered,
                   debit, unique_guid, credits, j, best_credit_idx, passes,
                   overlap>>

\* lines 57-62: the next account and its unread debits
NextAccount ==
    /\ pc = "for"
    /\ groups # <<>>
    /\ account' = Head(groups)
    /\ groups' = Tail(groups)
    /\ filtered' \in Filtered(ledger, Head(groups))
    /\ pc' = "while"
    /\ UNCHANGED <<transdays, ledger, results, append_debit, debit, unique_guid,
                   credits, j, best_credit_idx, passes,
                   overlap>>

\* line 57: the for loop is exhausted, settle_ledger returns
EndSettle ==
    /\ pc = "for"
    /\ groups = <<>>
    /\ pc' = "settled"
    /\ UNCHANGED <<transdays, ledger, results, append_debit, groups, account,
                   filtered, debit, unique_guid, credits, j, best_credit_idx, passes,
                   overlap>>

\* line 64: filtered is empty
EndAccount ==
    /\ pc = "while"
    /\ filtered = <<>>
    /\ pc' = "for"
    /\ UNCHANGED <<transdays, ledger, results, append_debit, groups, account,
                   filtered, debit, unique_guid, credits, j, best_credit_idx, passes,
                   overlap>>

\* lines 64-74: take the first unread debit, mark it read, draw a uuid
SelectDebit ==
    /\ pc = "while"
    /\ filtered # <<>>
    /\ debit' = filtered[1]
    /\ ledger' = SetFlag(ledger, filtered[1].name, "Read")
    /\ unique_guid' = <<Len(passes) + 1>>
    /\ passes' = Append(passes, filtered[1].name)
    /\ append_debit' = FALSE
    /\ pc' = "select"
    /\ UNCHANGED <<transdays, results, groups, account, filtered, credits, j,
                   best_credit_idx,
                   overlap>>

\* lines 76-83 and 103-105: the candidates, entry of match_credits_number
BuildCandidates ==
    /\ pc = "select"
    /\ credits' \in Unsettletrans(ledger, debit, transdays)
    /\ j' = 1
    /\ best_credit_idx' = None
    /\ pc' = "match"
    /\ UNCHANGED <<transdays, ledger, results, append_debit, groups, account,
                   filtered, debit, unique_guid, passes,
                   overlap>>

\* MatchCredit keeping only the first candidate that scores
MatchCreditFirstOnly ==
    /\ pc = "match"
    /\ j <= Len(credits)
    /\ j' = j + 1
    /\ LET credit_row == credits[j]
           score == Overlap(ToSet(debit.ExtractedNumbers),
                            ToSet(credit_row.ExtractedNumbers))
           skip == \/ credit_row.Matched = TRUE
                   \/ OutOfWindow(credit_row, debit, transdays)
           best_overlap == IF score > 0 THEN score ELSE 0
           idx == IF score > 0 THEN credit_row.name ELSE best_credit_idx
       IN IF skip
          THEN UNCHANGED <<ledger, results, append_debit, best_credit_idx, overlap>>
          ELSE /\ overlap' = score
               /\ best_credit_idx' = idx
               /\ IF idx # None /\ best_overlap > 0 /\ ~append_debit
                  THEN LET row == CHOOSE r \in ToSet(credits) : r.name = idx
                       IN /\ append_debit' = TRUE
                          /\ ledger' = SetFlag(ledger, row.name, "Matched")
                          /\ results' = Append(results,
                                 Record(row, account, debit.CostCentre,
                                        debit.ProfitCentre, unique_guid))
                  ELSE UNCHANGED <<ledger, results, append_debit>>
    /\ UNCHANGED <<transdays, pc, groups, account, filtered, debit, unique_guid,
                   credits, passes>>

\* lines 107-141: one iteration of the loop over credits
MatchCredit ==
    /\ pc = "match"
    /\ j <= Len(credits)
    /\ j' = j + 1
    /\ LET credit_row == credits[j]
           score == Overlap(ToSet(debit.ExtractedNumbers),
                            ToSet(credit_row.ExtractedNumbers))
           skip == \/ credit_row.Matched = TRUE
                   \/ OutOfWindow(credit_row, debit, transdays)
           best_overlap == IF score > 0 THEN score ELSE 0
           idx == IF score > 0 THEN credit_row.name ELSE best_credit_idx
       IN IF skip
          THEN UNCHANGED <<ledger, results, append_debit, best_credit_idx, overlap>>
          ELSE /\ overlap' = score
               /\ best_credit_idx' = idx
               /\ IF idx # None /\ best_overlap > 0
                  THEN LET row == CHOOSE r \in ToSet(credits) : r.name = idx
                       IN /\ append_debit' = TRUE
                          /\ ledger' = SetFlag(ledger, row.name, "Matched")
                          /\ results' = Append(results,
                                 Record(row, account, debit.CostCentre,
                                        debit.ProfitCentre, unique_guid))
                  ELSE UNCHANGED <<ledger, results, append_debit>>
    /\ UNCHANGED <<transdays, pc, groups, account, filtered, debit, unique_guid,
                   credits, passes>>

\* lines 143-156, then 85-89: the debit's own record, and filtered again
AttachDebit ==
    /\ pc = "match"
    /\ j > Len(credits)
    /\ IF append_debit
       THEN /\ ledger' = SetFlag(ledger, debit.name, "Matched")
            /\ results' = Append(results,
                   Record(debit, account, debit.CostCentre, debit.ProfitCentre,
                          unique_guid))
       ELSE UNCHANGED <<ledger, results,
                   overlap>>
    /\ filtered' \in Filtered(ledger', account)
    /\ pc' = "while"
    /\ UNCHANGED <<transdays, append_debit, groups, account, debit, unique_guid,
                   credits, j, best_credit_idx, passes,
                   overlap>>

\* Remaining without the test of Matched
RemainingAll(L) == L

\* write_unsettled, lines 159-177
Remaining(L) == SelectSeq(L, LAMBDA r : r.Matched = FALSE)

UnsettledRecords(L) ==
    LET remaining == Remaining(L)
    IN [k \in 1..Len(remaining) |->
           Record(remaining[k], remaining[k].MainAccount, remaining[k].CostCentre,
                  remaining[k].ProfitCentre, <<>>)]

\* WriteUnsettled putting the unsettled records in front
WriteUnsettledFirst ==
    /\ pc = "settled"
    /\ results' = UnsettledRecords(ledger) \o results
    /\ pc' = "written"
    /\ UNCHANGED <<transdays, ledger, append_debit, groups, account, filtered,
                   debit, unique_guid, credits, j, best_credit_idx, passes,
                   overlap>>

WriteUnsettled ==
    /\ pc = "settled"
    /\ results' = results \o UnsettledRecords(ledger)
    /\ pc' = "written"
    /\ UNCHANGED <<transdays, ledger, append_debit, groups, account, filtered,
                   debit, unique_guid, credits, j, best_credit_idx, passes,
                   overlap>>

\* process_mcp, lines 190-193: load_ledger, settle_ledger, write_unsettled
Next ==
    \/ LoadLedger
    \/ GroupBy
    \/ NextAccount
    \/ EndSettle
    \/ EndAccount
    \/ SelectDebit
    \/ BuildCandidates
    \/ MatchCredit
    \/ AttachDebit
    \/ WriteUnsettled

Spec == Init /\ [][Next]_vars

NextAccounts ==
    \/ LoadLedgerAccounts
    \/ GroupBy
    \/ NextAccount
    \/ EndSettle
    \/ EndAccount
    \/ SelectDebit
    \/ BuildCandidates
    \/ MatchCredit
    \/ AttachDebit
    \/ WriteUnsettled

SpecAccounts == Init /\ [][NextAccounts]_vars

NextDates ==
    \/ LoadLedgerDates
    \/ GroupBy
    \/ NextAccount
    \/ EndSettle
    \/ EndAccount
    \/ SelectDebit
    \/ BuildCandidates
    \/ MatchCredit
    \/ AttachDebit
    \/ WriteUnsettled

SpecDates == Init /\ [][NextDates]_vars

NextMissing ==
    \/ LoadLedgerMissing
    \/ GroupBy
    \/ NextAccount
    \/ EndSettle
    \/ EndAccount
    \/ SelectDebit
    \/ BuildCandidates
    \/ MatchCredit
    \/ AttachDebit
    \/ WriteUnsettled

SpecMissing == Init /\ [][NextMissing]_vars

NextCentres ==
    \/ LoadLedgerCentres
    \/ GroupBy
    \/ NextAccount
    \/ EndSettle
    \/ EndAccount
    \/ SelectDebit
    \/ BuildCandidates
    \/ MatchCredit
    \/ AttachDebit
    \/ WriteUnsettled

SpecCentres == Init /\ [][NextCentres]_vars

NextTokens ==
    \/ LoadLedgerTokens
    \/ GroupBy
    \/ NextAccount
    \/ EndSettle
    \/ EndAccount
    \/ SelectDebit
    \/ BuildCandidates
    \/ MatchCredit
    \/ AttachDebit
    \/ WriteUnsettled

SpecTokens == Init /\ [][NextTokens]_vars

NextPlain ==
    \/ LoadLedgerPlain
    \/ GroupBy
    \/ NextAccount
    \/ EndSettle
    \/ EndAccount
    \/ SelectDebit
    \/ BuildCandidates
    \/ MatchCredit
    \/ AttachDebit
    \/ WriteUnsettled

SpecPlain == Init /\ [][NextPlain]_vars

NextNested ==
    \/ LoadLedgerNested
    \/ GroupBy
    \/ NextAccount
    \/ EndSettle
    \/ EndAccount
    \/ SelectDebit
    \/ BuildCandidates
    \/ MatchCredit
    \/ AttachDebit
    \/ WriteUnsettled

SpecNested == Init /\ [][NextNested]_vars

NextOrder ==
    \/ LoadLedgerOrder
    \/ GroupBy
    \/ NextAccount
    \/ EndSettle
    \/ EndAccount
    \/ SelectDebit
    \/ BuildCandidates
    \/ MatchCredit
    \/ AttachDebit
    \/ WriteUnsettled

SpecOrder == Init /\ [][NextOrder]_vars

NextCells ==
    \/ LoadLedgerCells
    \/ GroupBy
    \/ NextAccount
    \/ EndSettle
    \/ EndAccount
    \/ SelectDebit
    \/ BuildCandidates
    \/ MatchCredit
    \/ AttachDebit
    \/ WriteUnsettled

SpecCells == Init /\ [][NextCells]_vars

\* ---------------------------------------------------------------- reading
\* the results and the ledger, for the properties below
Recs == 1..Len(results)
Rows == 1..Len(ledger)
Grouped(k) == results[k].Settlement_Number # <<>>
GroupIds == {results[k].Settlement_Number : k \in Recs} \ {<<>>}
Members(g) == {k \in Recs : results[k].Settlement_Number = g}
\* the ledger row a record was written for (Journal numbers the rows)
TxnOf(k) == ledger[results[k].Journal]
\* the debit of the pass that drew settlement number g
PassDebit(g) == Row(ledger, passes[g[1]])
\* a record written for a candidate of its pass, not for the pass's debit
IsCandidateRecord(k) ==
    Grouped(k) /\ results[k].Journal # PassDebit(results[k].Settlement_Number).Journal
Settled == pc \in {"settled", "written"}
Related(a, b) ==
    \E n1 \in ToSet(a.ExtractedNumbers) : \E n2 \in ToSet(b.ExtractedNumbers) :
        In(n1, n2) \/ In(n2, n1)
Abs(x) == IF x < 0 THEN -x ELSE x
Near(a, b) ==
    a.Date # NaT /\ b.Date # NaT /\ Abs(a.Date - b.Date) <= transdays
Qualifies(x, d) ==
    /\ x.CostCentre = d.CostCentre
    /\ x.ProfitCentre = d.ProfitCentre
    /\ Near(x, d)
    /\ Related(x, d)

\* ------------------------------------------------------------------ claims

\* C1: once settle_ledger has finished, every settlement number in the results
\* labels exactly one record of a debit (amount < 0) and at least one record
\* of a credit (amount >= 0).
C1_GroupShape ==
    Settled =>
        \A g \in GroupIds :
            /\ Cardinality({k \in Members(g) : results[k].Amount < 0}) = 1
            /\ \E k \in Members(g) : results[k].Amount >= 0

\* C2: in every state, every transaction recorded under a settlement number
\* has the account of the debit whose pass drew that number.
C2_NoCrossAccount ==
    \A k \in Recs :
        Grouped(k) =>
            TxnOf(k).MainAccount = PassDebit(results[k].Settlement_Number).MainAccount

\* C3: after settle_ledger and write_unsettled every input transaction has
\* exactly one record in the results, so the results are as long as the ledger.
C3_OneRecordPerTxn ==
    pc = "written" =>
        /\ Len(results) = Len(ledger)
        /\ \A r \in Rows :
               Cardinality({k \in Recs : results[k].Journal = ledger[r].Journal}) = 1

\* C4: after settle_ledger and write_unsettled the transactions recorded under
\* a settlement number and those recorded with the empty one are disjoint and
\* together are the whole ledger; the first are the rows with Matched true,
\* the second the rows with Matched false.
MatchedOut == {results[k].Journal : k \in {i \in Recs : Grouped(i)}}
UnsettledOut == {results[k].Journal : k \in {i \in Recs : ~Grouped(i)}}
C4_Partition ==
    pc = "written" =>
        /\ MatchedOut \cap UnsettledOut = {}
        /\ MatchedOut \cup UnsettledOut = {ledger[r].Journal : r \in Rows}
        /\ \A r \in Rows :
               /\ ledger[r].Matched <=> ledger[r].Journal \in MatchedOut
               /\ ~ledger[r].Matched <=> ledger[r].Journal \in UnsettledOut
C4_Witness ==
    pc = "written" /\ MatchedOut # {} /\ UnsettledOut # {}

\* C5: every record written for a candidate under a settlement number has a
\* date within transdays days of the date of that pass's debit.
C5_Window ==
    \A k \in Recs :
        IsCandidateRecord(k) =>
            LET d == PassDebit(results[k].Settlement_Number)
            IN /\ results[k].Date # NaT
               /\ d.Date # NaT
               /\ Abs(results[k].Date - d.Date) <= transdays
C5_Witness ==
    /\ pc = "written"
    /\ transdays > 0
    /\ \E k \in Recs :
          /\ IsCandidateRecord(k)
          /\ Abs(results[k].Date - PassDebit(results[k].Settlement_Number).Date)
                = transdays
    /\ \E r \in Rows : ledger[r].Date = NaT

\* C6: every record written for a candidate under a settlement number is of a
\* transaction one of whose numeric tokens contains, or is contained in, a
\* numeric token of that pass's debit.
C6_Overlap ==
    \A k \in Recs :
        IsCandidateRecord(k) =>
            Related(PassDebit(results[k].Settlement_Number), TxnOf(k))
C6_Witness ==
    /\ pc = "written"
    /\ \E k \in Recs :
          /\ IsCandidateRecord(k)
          /\ TxnOf(k).ExtractedNumbers
                # PassDebit(results[k].Settlement_Number).ExtractedNumbers
    /\ \E r \in Rows : ~ledger[r].Matched

\* C7: once settle_ledger has finished, no debit with Matched false has
\* another transaction that is unread, unmatched, of its cost and profit
\* centre, within transdays days of it and related to it by a numeric token.
C7_Maximal ==
    Settled =>
        \A d \in Rows :
            (ledger[d].Type = "debit" /\ ~ledger[d].Matched) =>
                ~\E x \in Rows :
                    /\ x # d
                    /\ ~ledger[x].Read
                    /\ ~ledger[x].Matched
                    /\ Qualifies(ledger[x], ledger[d])

\* C8: the candidates built for a debit hold no transaction whose Matched
\* flag was true, and no transaction has two records written for it as a
\* candidate.
C8_MatchedNotReused ==
    /\ pc = "match" => \A k \in 1..Len(credits) : credits[k].Matched = FALSE
    /\ \A r \in Rows :
          Cardinality({k \in Recs : IsCandidateRecord(k)
                                     /\ results[k].Journal = ledger[r].Journal}) <= 1
C8_Witness ==
    /\ pc = "match"
    /\ j = 1
    /\ ~Row(ledger, debit.name).Matched
    /\ \E x \in Rows :
          /\ ledger[x].Type = "credit"
          /\ ledger[x].Matched
          /\ ~ledger[x].Read
          /\ Qualifies(ledger[x], debit)
          /\ \A k \in 1..Len(credits) : credits[k].name # ledger[x].name

\* C9: once settle_ledger has finished, a debit whose pass wrote no record
\* has Matched false and no record under any settlement number.
C9_UnmatchedDebit ==
    Settled =>
        \A n \in 1..Len(passes) :
            Members(<<n>>) = {} =>
                /\ ~Row(ledger, passes[n]).Matched
                /\ \A k \in Recs :
                       Grouped(k) => results[k].Journal # Row(ledger, passes[n]).Journal

\* C10: once settle_ledger has finished, the loop has run once for every
\* debit of the ledger.
C10_OnePassPerDebit ==
    Settled =>
        Len(passes) = Cardinality({r \in Rows : ledger[r].Type = "debit"})

\* C11: in the final results every record with a settlement number precedes
\* every record without one, the settlement numbers come in the order of the
\* passes (so the records of a group are contiguous), and the records without
\* one come in the order of the ledger.
C11_Ordering ==
    pc = "written" =>
        \A k1, k2 \in Recs :
            k1 < k2 =>
                /\ Grouped(k2) =>
                      /\ Grouped(k1)
                      /\ results[k1].Settlement_Number[1]
                            <= results[k2].Settlement_Number[1]
                /\ ~Grouped(k1) =>
                      /\ ~Grouped(k2)
                      /\ results[k1].Journal < results[k2].Journal
C11_Witness ==
    /\ pc = "written"
    /\ \E k1, k2, k3 \in Recs :
          /\ k1 < k2 /\ k2 < k3
          /\ Grouped(k1) /\ Grouped(k3)
          /\ results[k1].Settlement_Number = results[k2].Settlement_Number
          /\ results[k2].Settlement_Number # results[k3].Settlement_Number
          /\ passes[results[k3].Settlement_Number[1]]
                < passes[results[k1].Settlement_Number[1]]

\* C12: every transaction written as a candidate under a settlement number has
\* the cost centre and the profit centre of that pass's debit.
C12_Centres ==
    \A k \in Recs :
        IsCandidateRecord(k) =>
            LET d == PassDebit(results[k].Settlement_Number)
            IN /\ TxnOf(k).CostCentre = d.CostCentre
               /\ TxnOf(k).ProfitCentre = d.ProfitCentre
C12_Witness ==
    /\ pc = "written"
    /\ \E k \in Recs :
          /\ IsCandidateRecord(k)
          /\ TxnOf(k).CostCentre = ""
          /\ TxnOf(k).ProfitCentre = ""
    /\ \E r \in Rows :
          /\ ledger[r].CostCentre = ""
          /\ ledger[r].ProfitCentre = "P1"
          /\ ~ledger[r].Matched

\* C13: a row with an unparseable date is never matched and never a candidate;
\* as a debit it is read, its candidates are empty, and the run goes on; it is
\* written once, without a settlement number.
C13_InvalidDate ==
    /\ \A r \in Rows : ledger[r].Date = NaT => ~ledger[r].Matched
    /\ pc = "match" =>
          /\ \A k \in 1..Len(credits) : credits[k].Date # NaT
          /\ debit.Date = NaT => credits = <<>>
    /\ Settled =>
          \A r \in Rows :
              (ledger[r].Date = NaT /\ ledger[r].Type = "debit") => ledger[r].Read
    /\ pc = "written" =>
          \A r \in Rows :
              ledger[r].Date = NaT =>
                  /\ Cardinality({k \in Recs : results[k].Journal = ledger[r].Journal}) = 1
                  /\ \A k \in Recs :
                        results[k].Journal = ledger[r].Journal => ~Grouped(k)
C13_Witness ==
    /\ pc = "written"
    /\ \E r \in Rows : ledger[r].Date = NaT /\ ledger[r].Type = "debit" /\ ledger[r].Read
    /\ \E r \in Rows : ledger[r].Date = NaT /\ ledger[r].Type = "credit"
    /\ \E r \in Rows : ledger[r].Date # NaT /\ ledger[r].Type = "debit" /\ ledger[r].Read

\* C14: the debit selected is the unread debit of the account with the
\* earliest date, the earlier row of the ledger among equal dates; within an
\* account the debits are processed in non-decreasing order of date; and a
\* credit that qualifies for two debits of an account that had a pass is in
\* the group of the earlier of the two.
Earlier(a, b) ==
    \/ a.Date # NaT /\ b.Date = NaT
    \/ a.Date # NaT /\ b.Date # NaT /\ a.Date < b.Date
    \/ a.Date = b.Date /\ a.name < b.name
Scoring == {k \in 1..Len(credits) : Related(debit, credits[k])}
C15_AttachAll ==
    /\ pc = "match" =>
          \A k \in 1..(j - 1) :
              /\ credits[k].Matched = FALSE
              /\ Near(credits[k], debit)
              /\ k \in Scoring <=>
                    \E i \in Members(unique_guid) :
                        results[i].Journal = credits[k].Journal
              /\ k \in Scoring => Row(ledger, credits[k].name).Matched
    /\ (pc = "while" /\ passes # <<>>) =>
          Cardinality(Members(unique_guid))
              = IF Scoring = {} THEN 0 ELSE Cardinality(Scoring) + 1
C15_Witness ==
    /\ pc = "while"
    /\ passes # <<>>
    /\ Cardinality(Scoring) = 2
    /\ Cardinality(Members(unique_guid)) = 3

\* one step of the run keeps the flags set and the types
FlagsKept ==
    pc # "new" =>
        /\ Len(ledger') = Len(ledger)
        /\ \A r \in Rows :
              /\ ledger[r].Read => ledger'[r].Read
              /\ ledger[r].Matched => ledger'[r].Matched
              /\ ledger'[r].Type = ledger[r].Type
              /\ ledger'[r].Type = TypeOf(ledger[r].Amount)
        /\ passes' # passes =>
              /\ ~Row(ledger, passes'[Len(passes')]).Read
              /\ Row(ledger', passes'[Len(passes')]).Read
\* C16: Read is true only for debits; every debit is selected exactly once
\* in the run, is Read before its candidates are built, and Read never goes
\* back to false; Matched only goes from false to true; Type never changes
\* after the load.
C16_Flags ==
    /\ [](\A r \in Rows : ledger[r].Read => ledger[r].Type = "debit")
    /\ [](pc \in {"select", "match"} => Row(ledger, debit.name).Read)
    /\ [](Settled =>
            \A r \in Rows :
                ledger[r].Type = "debit" =>
                    Cardinality({n \in 1..Len(passes) :
                                     passes[n] = ledger[r].name}) = 1)
    /\ [](\A m, n \in 1..Len(passes) : m # n => passes[m] # passes[n])
    /\ [][FlagsKept]_vars

\* C17: the passes of one account never change the Read or Matched flag of a
\* transaction of another account.
OtherAccountsKept ==
    pc \in {"while", "select", "match"} =>
        \A r \in Rows :
            ledger[r].MainAccount # account =>
                /\ ledger'[r].Read = ledger[r].Read
                /\ ledger'[r].Matched = ledger[r].Matched
C17_AccountIndependence == [][OtherAccountsKept]_vars

\* C18: the score computed for a candidate is the number of pairs (a, b), a a
\* numeric token of the debit's description and b one of the candidate's,
\* each token counted once, such that a lies in b or b lies in a.
Tokens(s) ==
    {SubSeq(s, a, b) : <<a, b>> \in
        {p \in (1..Len(s)) \X (1..Len(s)) :
            /\ p[1] <= p[2]
            /\ \A i \in p[1]..p[2] : s[i] \in Digits
            /\ p[1] = 1 \/ s[p[1] - 1] \notin Digits
            /\ p[2] = Len(s) \/ s[p[2] + 1] \notin Digits}}
Contains(b, a) ==
    \E i \in 0..(Len(b) - Len(a)) : \A m \in 1..Len(a) : b[i + m] = a[m]
RelatedPairs(A, B) ==
    {p \in A \X B : Contains(p[2], p[1]) \/ Contains(p[1], p[2])}
C18_Score ==
    (pc = "match" /\ j > 1) =>
        LET A == Tokens(debit.Description)
            B == Tokens(credits[j - 1].Description)
        IN /\ overlap = Cardinality(RelatedPairs(A, B))
           /\ overlap = 0 <=> RelatedPairs(A, B) = {}
C18_Witness ==
    /\ pc = "match"
    /\ j > 1
    /\ Cardinality(Tokens(debit.Description)) = 2
    /\ Cardinality(Tokens(credits[j - 1].Description)) = 1
    /\ overlap = 2

\* C19: a transaction whose description holds no digit is never matched and
\* is written once, without a settlement number.
NoDigits(s) == \A i \in 1..Len(s) : s[i] \notin Digits
C19_NoTokens ==
    /\ \A r \in Rows : NoDigits(ledger[r].Description) => ~ledger[r].Matched
    /\ pc = "written" =>
          \A r \in Rows :
              NoDigits(ledger[r].Description) =>
                  /\ Cardinality({k \in Recs : results[k].Journal = ledger[r].Journal}) = 1
                  /\ \A k \in Recs :
                        results[k].Journal = ledger[r].Journal => ~Grouped(k)
C19_Witness ==
    /\ pc = "written"
    /\ GroupIds # {}
    /\ \E r \in Rows : NoDigits(ledger[r].Description) /\ ledger[r].Type = "credit"

\* C20: every record of the results carries the account of the transaction it
\* was written for.
C20_RecordAccount ==
    \A k \in Recs : results[k].Account = TxnOf(k).MainAccount

=============================================================================
